---- MODULE Spec2Model ----
(***************************************************************************)
(* Model of the fork-join work-stealing queue of src/src/queue.rs:         *)
(* the supervisor (WorkQueue::new / push / run / shutdown), the worker     *)
(* threads (WorkerThread::start) and the proxy handed to a running work    *)
(* unit (WorkerProxy::push); and of the task pool of src/src/pool.rs       *)
(* (TaskPool::new / execute and the loop of its threads).                  *)
(*                                                                         *)
(* Channels are unbounded multi-producer FIFO queues.  A send to a channel *)
(* whose receiver is gone panics, a blocking recv on an empty channel      *)
(* whose senders are all gone panics, try_recv never blocks.  A deque is a *)
(* sequence: the owner pushes and pops at the end (bottom), a thief steals *)
(* the head (top).                                                         *)
(***************************************************************************)
EXTENDS Integers, Sequences, FiniteSets, TLC

\* ------------------------------------------------------------------ bounds
MaxThreads == 2
MaxDepth == 2
Fanout == 1
MaxUnits == 3
MaxIdlePolls == 1
MaxStepUnits == 2
MaxTasks == 2
MaxJobs == 2

\* ------------------------------------------------------- program constants
SPIN_COUNT == 128
SPINS_UNTIL_BACKOFF == 100
BACKOFF_INCREMENT_IN_US == 5

\* uint::MAX, the value an AtomicUint holds after fetch_sub(1) at 0; it stands
\* for 2^64 - 1 (the largest integer the checker's arithmetic holds).
UintMax == 2147483647

VARIABLES
  sup_pc,          \* where the caller / supervisor thread is
  sup_k,           \* loop index of the supervisor's current for loop
  thread_count,    \* workers.len()
  info_deque,      \* WorkerInfo.deque: Some(handle) or None, per worker
  work_count,      \* WorkQueue.work_count
  ref_count,       \* the AtomicUint of run() that Start hands to the workers
  deque,           \* contents of each work-stealing deque (top first)
  wchan,           \* WorkerInfo.chan -> WorkerThread.port, per worker
  schan,           \* WorkerThread.chan -> WorkQueue.port
  w_pc,            \* where each worker thread is
  my_deque,        \* the owner handle a worker got with Start
  other_deques,    \* WorkerThread.other_deques
  work_unit,       \* the unit a worker is executing
  kids_left,       \* children the running work function has still to push
  i,               \* the spin counter i when a round of the steal loop begins
  back_off_sleep,  \* back_off_sleep of the worker
  shutdown_called, \* history: shutdown() was called
  executed,        \* history: how often each unit's function was invoked
  seeds0,          \* history: work_count when the current run began
  incs,            \* history: fetch_add's of the current run
  decs,            \* history: fetch_sub's of the current run
  finished_sent,   \* history: Finished messages sent in the current run
  last_one,        \* history: fetch_sub's of the current run that returned 1
  steals,          \* history: steal()s of the current run that returned Data
  waited,          \* history, per worker: failed steal()s in a row made with a
                   \*   message waiting in its port since the round began (i = 0)
  sleeps,          \* history, per worker: sleeps since back_off_sleep was set to 0
  last_sleep,      \* history, per worker: microseconds of the latest of these
  runs_returned,   \* history: whether some run() has returned
  next_id,         \* input bookkeeping: the id the next seed unit gets
  pool_pc,         \* TaskPool: not made yet, live (tx held), dropped, panicked
  tasks,           \* TaskPool::new's argument
  spawned,         \* pool threads the initializer thread has spawned so far
  rx,              \* the jobs sent through tx and not yet received
  state,           \* the thread holding the mutex around rx, or None
  t_pc,            \* where each pool thread is
  job,             \* the job a pool thread received
  sent,            \* history: jobs passed to execute()
  ran,             \* history: how often each job was run
  received_by      \* history: the pool threads that received each job

queueVars == <<sup_pc, sup_k, thread_count, info_deque, work_count, ref_count,
               deque, wchan, schan, w_pc, my_deque, other_deques, work_unit,
               kids_left, i, back_off_sleep, shutdown_called, executed, seeds0,
               incs, decs, finished_sent, last_one, steals, waited, sleeps,
               last_sleep, runs_returned, next_id>>
poolVars == <<pool_pc, tasks, spawned, rx, state, t_pc, job, sent, ran,
              received_by>>
vars == <<queueVars, poolVars>>

spinHist == <<waited, sleeps, last_sleep>>
workerVars == <<w_pc, my_deque, other_deques, work_unit, kids_left, i,
                back_off_sleep, waited, sleeps, last_sleep>>
runHist == <<seeds0, incs, decs, finished_sent, last_one, steals>>

\* ------------------------------------------------------------------ values
None == -1
Workers == 0 .. thread_count - 1
UnitIds == 1 .. MaxUnits
NoUnit == [id |-> 0, depth |-> 0]
PoolThreads == 0 .. tasks - 1
JobIds == 1 .. MaxJobs
NoJob == 0

StartMsg(d) == [type |-> "Start", deque |-> d]
StopMsg == [type |-> "Stop", deque |-> None]
\* (shutdown() sending the message that ends a run instead of the thread)
ExitSentAsStop == StopMsg
ExitMsg == [type |-> "Exit", deque |-> None]
FinishedMsg == [type |-> "Finished", index |-> None, deque |-> None]
\* (every worker returning its deque under index 0)
ReturnDequeIndexZero(w, d) == [type |-> "ReturnDeque", index |-> 0, deque |-> d]
ReturnDequeMsg(w, d) == [type |-> "ReturnDeque", index |-> w, deque |-> d]

\* How a worker thread panics: "panicked" in the victim selection of line 108,
\* the others with the message of the panic! of line 86 and of line 132.
WorkerPanics == {"panicked", "unexpected_stop", "unexpected_message"}
\* How the supervisor thread panics: "panicked" in an unwrap, an indexing, a
\* send or a recv, "unexpected_finished" with the panic! of line 290.
SupervisorPanics == {"panicked", "unexpected_finished"}

\* A worker thread that has ended has dropped its port and its sender.
Dead(w) == w_pc[w] \in {"exited"} \cup WorkerPanics
AllSendersGone == \A w \in Workers : Dead(w)

\* ------------------------------------------------------- the work function
\* The function of a unit of depth d pushes Fanout children of depth d - 1
\* through its proxy and returns; a unit of depth 0 pushes nothing.
Kids(d) == IF d > 0 THEN Fanout ELSE 0

RECURSIVE TreeSize(_)
TreeSize(d) == IF d = 0 THEN 1 ELSE 1 + Fanout * TreeSize(d - 1)

\* The k-th child (k = Kids, ..., 1 still to push) of unit u.
Child(u, k) ==
  [id |-> u.id + 1 + (Kids(u.depth) - k) * TreeSize(u.depth - 1),
   depth |-> u.depth - 1]

\* ------------------------------------------------------------- the deque
DequePush(q, u) == Append(q, u)
DequePopValue(q) == q[Len(q)]
\* (a pop that hands out the bottom unit and leaves it in the deque)
DequePopKeeps(q) == q
DequePopRest(q) == SubSeq(q, 1, Len(q) - 1)
DequeStealValue(q) == Head(q)
\* (a steal that hands out the top unit and leaves it in the deque)
DequeStealKeeps(q) == q
DequeStealRest(q) == Tail(q)

\* ------------------------------------------------------------------- Init
Init ==
  /\ sup_pc = "new"
  /\ sup_k = 0
  /\ thread_count = 0
  /\ info_deque = <<>>
  /\ work_count = 0
  /\ ref_count = 0
  /\ deque = <<>>
  /\ wchan = <<>>
  /\ schan = <<>>
  /\ w_pc = <<>>
  /\ my_deque = <<>>
  /\ other_deques = <<>>
  /\ work_unit = <<>>
  /\ kids_left = <<>>
  /\ i = <<>>
  /\ back_off_sleep = <<>>
  /\ waited = <<>>
  /\ sleeps = <<>>
  /\ last_sleep = <<>>
  /\ shutdown_called = FALSE
  /\ executed = [u \in UnitIds |-> 0]
  /\ seeds0 = 0
  /\ incs = 0
  /\ decs = 0
  /\ finished_sent = 0
  /\ last_one = 0
  /\ steals = 0
  /\ runs_returned = FALSE
  /\ next_id = 1
  /\ pool_pc = "new"
  /\ tasks = 0
  /\ spawned = 0
  /\ rx = <<>>
  /\ state = None
  /\ t_pc = <<>>
  /\ job = <<>>
  /\ sent = 0
  /\ ran = [j \in JobIds |-> 0]
  /\ received_by = [j \in JobIds |-> {}]

\* ------------------------------------------------------------- WorkQueue
\* The connection loop without its test i != j: every thief handle, the
\* worker's own included.
OtherDequesAll(w, n) == [k \in 1 .. n |-> k - 1]

\* The thief handles worker w gets: those of every j # w, in index order.
OtherDeques(w, n) == [k \in 1 .. n - 1 |-> IF k - 1 < w THEN k - 1 ELSE k]

\* WorkQueue::new(thread_count, user_data): one deque and one channel per
\* worker, every worker thread spawned and blocked in its first recv.
New(n) ==
  /\ sup_pc = "new"
  /\ thread_count' = n
  /\ info_deque' = [w \in 0 .. n - 1 |-> w]
  /\ deque' = [w \in 0 .. n - 1 |-> <<>>]
  /\ wchan' = [w \in 0 .. n - 1 |-> <<>>]
  /\ w_pc' = [w \in 0 .. n - 1 |-> "recv"]
  /\ my_deque' = [w \in 0 .. n - 1 |-> None]
  /\ other_deques' = [w \in 0 .. n - 1 |-> OtherDeques(w, n)]
  /\ work_unit' = [w \in 0 .. n - 1 |-> NoUnit]
  /\ kids_left' = [w \in 0 .. n - 1 |-> 0]
  /\ i' = [w \in 0 .. n - 1 |-> 0]
  /\ back_off_sleep' = [w \in 0 .. n - 1 |-> 0]
  /\ waited' = [w \in 0 .. n - 1 |-> 0]
  /\ sleeps' = [w \in 0 .. n - 1 |-> 0]
  /\ last_sleep' = [w \in 0 .. n - 1 |-> None]
  /\ work_count' = 0
  /\ sup_pc' = "idle"
  /\ UNCHANGED <<sup_k, ref_count, schan, shutdown_called, executed,
                 runs_returned, next_id>>
  /\ UNCHANGED runHist
  /\ UNCHANGED poolVars

\* WorkQueue::push(work_unit), the unit being one of depth d: workers[0] is
\* indexed (out of bounds with no worker), the unit goes to worker 0's deque
\* if its handle is there, and then work_count is incremented.
Push(d) ==
  /\ sup_pc = "idle"
  /\ next_id + TreeSize(d) - 1 <= MaxUnits
  /\ IF thread_count = 0 \/ info_deque[0] = None
       THEN /\ sup_pc' = "panicked"
            /\ UNCHANGED <<deque, work_count, next_id>>
       ELSE /\ deque' = [deque EXCEPT ![info_deque[0]] =
                           DequePush(@, [id |-> next_id, depth |-> d])]
            /\ work_count' = work_count + 1
            /\ next_id' = next_id + TreeSize(d)
            /\ UNCHANGED sup_pc
  /\ UNCHANGED <<sup_k, thread_count, info_deque, ref_count, wchan, schan,
                 shutdown_called, executed, runs_returned>>
  /\ UNCHANGED workerVars
  /\ UNCHANGED runHist
  /\ UNCHANGED poolVars

\* WorkQueue::run, line 271: the fresh counter is initialised from work_count.
RunBegin ==
  /\ sup_pc = "idle"
  /\ ref_count' = work_count
  /\ seeds0' = work_count
  /\ incs' = 0
  /\ decs' = 0
  /\ finished_sent' = 0
  /\ last_one' = 0
  /\ steals' = 0
  /\ sup_k' = 0
  /\ sup_pc' = IF thread_count = 0 THEN "recv_finished" ELSE "start"
  /\ UNCHANGED <<thread_count, info_deque, work_count, deque, wchan, schan,
                 shutdown_called, executed, runs_returned, next_id>>
  /\ UNCHANGED workerVars
  /\ UNCHANGED poolVars

\* After the loop body for worker sup_k: the next worker, or the next phase.
NextPc(here, after) == IF sup_k + 1 < thread_count THEN here ELSE after

\* WorkQueue::run, lines 272-275, one iteration: take worker sup_k's deque
\* (unwrap panics on None) and send it in a Start message.
SendStart ==
  /\ sup_pc = "start"
  /\ IF info_deque[sup_k] = None \/ Dead(sup_k)
       THEN /\ sup_pc' = "panicked"
            /\ UNCHANGED <<sup_k, wchan>>
       ELSE /\ wchan' = [wchan EXCEPT ![sup_k] =
                           Append(@, StartMsg(info_deque[sup_k]))]
            /\ sup_pc' = NextPc("start", "recv_finished")
            /\ sup_k' = IF sup_k + 1 < thread_count THEN sup_k + 1 ELSE 0
  /\ info_deque' = [info_deque EXCEPT ![sup_k] = None]
  /\ UNCHANGED <<thread_count, work_count, ref_count, deque, schan,
                 shutdown_called, executed, runs_returned, next_id>>
  /\ UNCHANGED workerVars
  /\ UNCHANGED runHist
  /\ UNCHANGED poolVars

\* (work_count left as it was when the run is over)
WorkCountKept(c) == c
\* Line 279: self.work_count = 0.
WorkCountReset(c) == 0

\* (a run() that goes on to send Stop without waiting for a message)
RecvFinishedNoWait ==
  /\ sup_pc = "recv_finished"
  /\ work_count' = 0
  /\ sup_pc' = IF thread_count = 0 THEN "idle" ELSE "stop"
  /\ UNCHANGED <<sup_k, thread_count, info_deque, ref_count, deque, wchan, schan,
                 shutdown_called, executed, runs_returned, next_id>>
  /\ UNCHANGED workerVars
  /\ UNCHANGED runHist
  /\ UNCHANGED poolVars

\* WorkQueue::run, lines 278-279: block for one message, drop it unlooked at,
\* and reset work_count.
RecvFinished ==
  /\ sup_pc = "recv_finished"
  /\ IF schan # <<>>
       THEN /\ schan' = Tail(schan)
            /\ work_count' = WorkCountReset(work_count)
            /\ sup_pc' = IF thread_count = 0 THEN "idle" ELSE "stop"
       ELSE /\ AllSendersGone
            /\ sup_pc' = "panicked"
            /\ UNCHANGED <<schan, work_count>>
  /\ UNCHANGED <<sup_k, thread_count, info_deque, ref_count, deque, wchan,
                 shutdown_called, executed, runs_returned, next_id>>
  /\ UNCHANGED workerVars
  /\ UNCHANGED runHist
  /\ UNCHANGED poolVars

\* WorkQueue::run, lines 282-284, one iteration: send Stop to worker sup_k.
SendStop ==
  /\ sup_pc = "stop"
  /\ IF Dead(sup_k)
       THEN /\ sup_pc' = "panicked"
            /\ UNCHANGED <<sup_k, wchan>>
       ELSE /\ wchan' = [wchan EXCEPT ![sup_k] = Append(@, StopMsg)]
            /\ sup_pc' = NextPc("stop", "collect")
            /\ sup_k' = IF sup_k + 1 < thread_count THEN sup_k + 1 ELSE 0
  /\ UNCHANGED <<thread_count, info_deque, work_count, ref_count, deque, schan,
                 shutdown_called, executed, runs_returned, next_id>>
  /\ UNCHANGED workerVars
  /\ UNCHANGED runHist
  /\ UNCHANGED poolVars

\* (the returned deque stored in worker 0's slot whatever the index)
StoreDequeFirst(info, m) == [info EXCEPT ![0] = m.deque]
\* Line 289: self.workers[index].deque = Some(deque).
StoreDeque(info, m) == [info EXCEPT ![m.index] = m.deque]

\* WorkQueue::run, lines 287-292, one iteration: a ReturnDeque puts the deque
\* back, a Finished panics; after workers.len() of them run() returns.
Collect ==
  /\ sup_pc = "collect"
  /\ IF schan # <<>>
       THEN /\ schan' = Tail(schan)
            /\ IF Head(schan).type = "ReturnDeque"
                 THEN /\ info_deque' = StoreDeque(info_deque, Head(schan))
                      /\ sup_pc' = NextPc("collect", "idle")
                      /\ sup_k' = IF sup_k + 1 < thread_count THEN sup_k + 1 ELSE 0
                      /\ runs_returned' = (runs_returned \/ sup_k + 1 >= thread_count)
                      /\ ref_count' = IF sup_k + 1 < thread_count THEN ref_count ELSE 0
                 ELSE /\ sup_pc' = "unexpected_finished"
                      /\ UNCHANGED <<info_deque, sup_k, runs_returned, ref_count>>
       ELSE /\ AllSendersGone
            /\ sup_pc' = "panicked"
            /\ UNCHANGED <<schan, info_deque, sup_k, runs_returned, ref_count>>
  /\ UNCHANGED <<thread_count, work_count, deque, wchan, shutdown_called,
                 executed, next_id>>
  /\ UNCHANGED workerVars
  /\ UNCHANGED runHist
  /\ UNCHANGED poolVars

\* WorkQueue::shutdown, line 296: the call begins.
ShutdownBegin ==
  /\ sup_pc = "idle"
  /\ ~shutdown_called
  /\ shutdown_called' = TRUE
  /\ sup_k' = 0
  /\ sup_pc' = IF thread_count = 0 THEN "idle" ELSE "shutdown"
  /\ UNCHANGED <<thread_count, info_deque, work_count, ref_count, deque, wchan,
                 schan, executed, runs_returned, next_id>>
  /\ UNCHANGED workerVars
  /\ UNCHANGED runHist
  /\ UNCHANGED poolVars

\* WorkQueue::shutdown, lines 297-299, one iteration: send Exit to worker sup_k.
SendExit ==
  /\ sup_pc = "shutdown"
  /\ IF Dead(sup_k)
       THEN /\ sup_pc' = "panicked"
            /\ UNCHANGED <<sup_k, wchan>>
       ELSE /\ wchan' = [wchan EXCEPT ![sup_k] = Append(@, ExitMsg)]
            /\ sup_pc' = NextPc("shutdown", "idle")
            /\ sup_k' = IF sup_k + 1 < thread_count THEN sup_k + 1 ELSE 0
  /\ UNCHANGED <<thread_count, info_deque, work_count, ref_count, deque, schan,
                 shutdown_called, executed, runs_returned, next_id>>
  /\ UNCHANGED workerVars
  /\ UNCHANGED runHist
  /\ UNCHANGED poolVars

\* ---------------------------------------------------------- WorkerThread
\* Lines 149-154: the proxy is built and the unit's function is entered.
Invoke(w, u) ==
  /\ work_unit' = [work_unit EXCEPT ![w] = u]
  /\ kids_left' = [kids_left EXCEPT ![w] = Kids(u.depth)]
  /\ executed' = [executed EXCEPT ![u.id] = @ + 1]
  /\ w_pc' = [w_pc EXCEPT ![w] = "exec"]

\* Lines 84-90: the blocking recv of the outer loop.
WorkerRecv(w) ==
  /\ w \in Workers
  /\ w_pc[w] = "recv"
  /\ wchan[w] # <<>>
  /\ wchan' = [wchan EXCEPT ![w] = Tail(@)]
  /\ CASE Head(wchan[w]).type = "Start" ->
            /\ my_deque' = [my_deque EXCEPT ![w] = Head(wchan[w]).deque]
            /\ back_off_sleep' = [back_off_sleep EXCEPT ![w] = 0]
            /\ sleeps' = [sleeps EXCEPT ![w] = 0]
            /\ last_sleep' = [last_sleep EXCEPT ![w] = None]
            /\ w_pc' = [w_pc EXCEPT ![w] = "pop"]
       [] Head(wchan[w]).type = "Stop" ->
            /\ w_pc' = [w_pc EXCEPT ![w] = "unexpected_stop"]
            /\ UNCHANGED <<my_deque, back_off_sleep, sleeps, last_sleep>>
       [] Head(wchan[w]).type = "Exit" ->
            /\ w_pc' = [w_pc EXCEPT ![w] = "exited"]
            /\ UNCHANGED <<my_deque, back_off_sleep, sleeps, last_sleep>>
  /\ UNCHANGED <<other_deques, work_unit, kids_left, i, waited>>
  /\ UNCHANGED <<sup_pc, sup_k, thread_count, info_deque, work_count, ref_count,
                 deque, schan, shutdown_called, executed, runs_returned, next_id>>
  /\ UNCHANGED runHist
  /\ UNCHANGED poolVars

\* Lines 101-106: pop from the own deque; on None become a thief with i = 0.
WorkerPop(w) ==
  /\ w \in Workers
  /\ w_pc[w] = "pop"
  /\ IF deque[my_deque[w]] # <<>>
       THEN /\ deque' = [deque EXCEPT ![my_deque[w]] = DequePopRest(@)]
            /\ Invoke(w, DequePopValue(deque[my_deque[w]]))
            /\ UNCHANGED <<i, waited>>
       ELSE /\ i' = [i EXCEPT ![w] = 0]
            /\ waited' = [waited EXCEPT ![w] = 0]
            /\ w_pc' = [w_pc EXCEPT ![w] = "steal"]
            /\ UNCHANGED <<deque, work_unit, kids_left, executed>>
  /\ UNCHANGED <<my_deque, other_deques, back_off_sleep, sleeps, last_sleep>>
  /\ UNCHANGED <<sup_pc, sup_k, thread_count, info_deque, work_count, ref_count,
                 wchan, schan, shutdown_called, runs_returned, next_id>>
  /\ UNCHANGED runHist
  /\ UNCHANGED poolVars

\* Line 108 with no other worker: the remainder by other_deques.len() == 0
\* panics and the worker thread ends, dropping the owner handle it holds.
VictimPanic(w) ==
  /\ w \in Workers
  /\ UNCHANGED spinHist
  /\ w_pc[w] = "steal"
  /\ Len(other_deques[w]) = 0
  /\ w_pc' = [w_pc EXCEPT ![w] = "panicked"]
  /\ my_deque' = [my_deque EXCEPT ![w] = None]
  /\ UNCHANGED <<other_deques, work_unit, kids_left, i, back_off_sleep>>
  /\ UNCHANGED <<sup_pc, sup_k, thread_count, info_deque, work_count, ref_count,
                 deque, wchan, schan, shutdown_called, executed, runs_returned,
                 next_id>>
  /\ UNCHANGED runHist
  /\ UNCHANGED poolVars

\* Lines 108-117, steal() returning Data: the unit leaves the victim's deque,
\* back_off_sleep is reset and the steal loop is left with the unit (i, a
\* local of the steal loop, is gone: it is kept at 0 outside the loop).
StealData(w, k) ==
  /\ w \in Workers
  /\ w_pc[w] = "steal"
  /\ k \in 1 .. Len(other_deques[w])
  /\ deque[other_deques[w][k]] # <<>>
  /\ deque' = [deque EXCEPT ![other_deques[w][k]] = DequeStealRest(@)]
  /\ Invoke(w, DequeStealValue(deque[other_deques[w][k]]))
  /\ back_off_sleep' = [back_off_sleep EXCEPT ![w] = 0]
  /\ sleeps' = [sleeps EXCEPT ![w] = 0]
  /\ last_sleep' = [last_sleep EXCEPT ![w] = None]
  /\ waited' = [waited EXCEPT ![w] = 0]
  /\ i' = [i EXCEPT ![w] = 0]
  /\ UNCHANGED <<my_deque, other_deques>>
  /\ UNCHANGED <<sup_pc, sup_k, thread_count, info_deque, work_count, ref_count,
                 wchan, schan, shutdown_called, runs_returned, next_id>>
  /\ steals' = steals + 1
  /\ UNCHANGED <<seeds0, incs, decs, finished_sent, last_one>>
  /\ UNCHANGED poolVars

\* Lines 120-123: the iterations n of lo .. hi of the steal loop in which the
\* worker sleeps, those past SPINS_UNTIL_BACKOFF.
SleepingSpins(lo, hi) == {n \in lo .. hi : n > SPINS_UNTIL_BACKOFF}

\* Lines 107-139 while every steal() fails: iterations i = lo, lo + 1, ..., hi
\* of the steal loop.  Each one that sleeps adds BACKOFF_INCREMENT_IN_US to
\* back_off_sleep; the value is back_off_sleep after iteration hi.
Spin(lo, hi, b) == b + BACKOFF_INCREMENT_IN_US * Cardinality(SleepingSpins(lo, hi))

\* back_off_sleep when the iteration with i == SPIN_COUNT polls the port.
SpinToPoll(n, b) == Spin(n, SPIN_COUNT, b)

\* back_off_sleep a worker may hold and still be scheduled for another round
\* of failed steals with nothing on its port.
MaxBackoffUs ==
  MaxIdlePolls * (SPIN_COUNT - SPINS_UNTIL_BACKOFF) * BACKOFF_INCREMENT_IN_US

\* Lines 126-134, where the worker is after try_recv has returned message m:
\* Stop leaves the loops for the send of line 166, Exit returns from start(),
\* anything else panics.
Polled(m) ==
  CASE m.type = "Stop" -> "return"
    [] m.type = "Exit" -> "exited"
    [] OTHER -> "unexpected_message"

\* Lines 107-139, one round of the steal loop in which every steal() returns
\* Empty (the victim's deque is empty) or Abort (a lost race): the failed
\* iterations touch nothing but i and back_off_sleep, so the round from i = 0
\* to the poll at i == SPIN_COUNT is one step.  The poll takes Stop (leave the
\* loops and return the deque), Exit (end the thread), any other message
\* (panic) or nothing (i = 0 and the next round).
StealFail(w) ==
  /\ w \in Workers
  /\ w_pc[w] = "steal"
  /\ Len(other_deques[w]) > 0
  /\ back_off_sleep' = [back_off_sleep EXCEPT
                         ![w] = SpinToPoll(i[w], back_off_sleep[w])]
  /\ IF wchan[w] # <<>>
       THEN /\ wchan' = [wchan EXCEPT ![w] = Tail(@)]
            /\ w_pc' = [w_pc EXCEPT ![w] = Polled(Head(wchan[w]))]
            /\ my_deque' = [my_deque EXCEPT ![w] =
                  IF Head(wchan[w]).type = "Stop" THEN @ ELSE None]
       ELSE /\ back_off_sleep[w] < MaxBackoffUs
            /\ UNCHANGED <<wchan, w_pc, my_deque>>
  /\ i' = [i EXCEPT ![w] = 0]
  /\ waited' = [waited EXCEPT ![w] =
        IF wchan[w] # <<>> THEN @ + Cardinality(i[w] .. SPIN_COUNT) ELSE 0]
  /\ sleeps' = [sleeps EXCEPT ![w] =
        @ + Cardinality(SleepingSpins(i[w], SPIN_COUNT))]
  /\ last_sleep' = [last_sleep EXCEPT ![w] =
        IF SleepingSpins(i[w], SPIN_COUNT) = {} THEN @
        ELSE SpinToPoll(i[w], back_off_sleep[w]) - BACKOFF_INCREMENT_IN_US]
  /\ UNCHANGED <<other_deques, work_unit, kids_left>>
  /\ UNCHANGED <<sup_pc, sup_k, thread_count, info_deque, work_count, ref_count,
                 deque, schan, shutdown_called, executed, runs_returned, next_id>>
  /\ UNCHANGED runHist
  /\ UNCHANGED poolVars

\* (the backoff beginning one iteration early)
SleepsFromThreshold(n) == n >= SPINS_UNTIL_BACKOFF
\* Lines 120-123: the iteration with spin counter n sleeps.
Sleeps(n) == n > SPINS_UNTIL_BACKOFF
\* (the poll made one iteration early, every SPIN_COUNT iterations)
PollsEarly(n) == n = SPIN_COUNT - 1
\* Line 125: the iteration with spin counter n polls the port.
Polls(n) == n = SPIN_COUNT

\* Lines 107-139, one iteration of the steal loop in which steal() returns
\* Empty or Abort: past SPINS_UNTIL_BACKOFF the worker sleeps back_off_sleep
\* microseconds and adds BACKOFF_INCREMENT_IN_US to it; at i == SPIN_COUNT it
\* polls its port as above and sets i to 0, otherwise it increments i.
StealIter(w) ==
  /\ w \in Workers
  /\ w_pc[w] = "steal"
  /\ Len(other_deques[w]) > 0
  /\ (i[w] = 0 /\ wchan[w] = <<>>) => back_off_sleep[w] < MaxBackoffUs
  /\ IF Sleeps(i[w])
       THEN /\ last_sleep' = [last_sleep EXCEPT ![w] = back_off_sleep[w]]
            /\ sleeps' = [sleeps EXCEPT ![w] = @ + 1]
            /\ back_off_sleep' = [back_off_sleep EXCEPT
                                   ![w] = @ + BACKOFF_INCREMENT_IN_US]
       ELSE UNCHANGED <<last_sleep, sleeps, back_off_sleep>>
  /\ IF Polls(i[w]) /\ wchan[w] # <<>>
       THEN /\ wchan' = [wchan EXCEPT ![w] = Tail(@)]
            /\ w_pc' = [w_pc EXCEPT ![w] = Polled(Head(wchan[w]))]
            /\ my_deque' = [my_deque EXCEPT ![w] =
                  IF Head(wchan[w]).type = "Stop" THEN @ ELSE None]
       ELSE UNCHANGED <<wchan, w_pc, my_deque>>
  /\ i' = [i EXCEPT ![w] = IF Polls(@) THEN 0 ELSE @ + 1]
  /\ waited' = [waited EXCEPT ![w] =
        IF wchan[w] # <<>> /\ (i[w] = 0 \/ @ > 0) THEN @ + 1 ELSE 0]
  /\ UNCHANGED <<other_deques, work_unit, kids_left>>
  /\ UNCHANGED <<sup_pc, sup_k, thread_count, info_deque, work_count, ref_count,
                 deque, schan, shutdown_called, executed, runs_returned, next_id>>
  /\ UNCHANGED runHist
  /\ UNCHANGED poolVars

\* ----------------------------------------------------------- WorkerProxy
\* (a push that forgets the fetch_add)
ProxyIncLost(w) ==
  /\ w \in Workers
  /\ UNCHANGED spinHist
  /\ w_pc[w] = "exec"
  /\ kids_left[w] > 0
  /\ UNCHANGED <<ref_count, incs>>
  /\ w_pc' = [w_pc EXCEPT ![w] = "proxy_push"]
  /\ UNCHANGED <<my_deque, other_deques, work_unit, kids_left, i, back_off_sleep>>
  /\ UNCHANGED <<sup_pc, sup_k, thread_count, info_deque, work_count, deque,
                 wchan, schan, shutdown_called, executed, runs_returned, next_id>>
  /\ UNCHANGED <<seeds0, decs, finished_sent, last_one, steals>>
  /\ UNCHANGED poolVars

\* (a fetch_add that leaves the counter as it is)
FetchAddNothing(c) == c
\* fetch_add(1, SeqCst) of an AtomicUint.
FetchAdd(c) == c + 1

\* WorkerProxy::push, line 182: fetch_add(1, SeqCst) on the counter.
ProxyInc(w) ==
  /\ w \in Workers
  /\ UNCHANGED spinHist
  /\ w_pc[w] = "exec"
  /\ kids_left[w] > 0
  /\ ref_count' = FetchAdd(ref_count)
  /\ incs' = incs + 1
  /\ w_pc' = [w_pc EXCEPT ![w] = "proxy_push"]
  /\ UNCHANGED <<my_deque, other_deques, work_unit, kids_left, i, back_off_sleep>>
  /\ UNCHANGED <<sup_pc, sup_k, thread_count, info_deque, work_count, deque,
                 wchan, schan, shutdown_called, executed, runs_returned, next_id>>
  /\ UNCHANGED <<seeds0, decs, finished_sent, last_one, steals>>
  /\ UNCHANGED poolVars

\* WorkerProxy::push, line 183: the child goes to the bottom of the deque of
\* the worker that runs the unit.
ProxyPush(w) ==
  /\ w \in Workers
  /\ UNCHANGED spinHist
  /\ w_pc[w] = "proxy_push"
  /\ deque' = [deque EXCEPT ![my_deque[w]] =
                 DequePush(@, Child(work_unit[w], kids_left[w]))]
  /\ kids_left' = [kids_left EXCEPT ![w] = @ - 1]
  /\ w_pc' = [w_pc EXCEPT ![w] = "exec"]
  /\ UNCHANGED <<my_deque, other_deques, work_unit, i, back_off_sleep>>
  /\ UNCHANGED <<sup_pc, sup_k, thread_count, info_deque, work_count, ref_count,
                 wchan, schan, shutdown_called, executed, runs_returned, next_id>>
  /\ UNCHANGED runHist
  /\ UNCHANGED poolVars

\* fetch_sub(1, SeqCst) of an AtomicUint: it wraps below 0.
FetchSub(c) == IF c = 0 THEN UintMax ELSE c - 1

\* (the test made on the new value instead of the value fetch_sub returns)
WasLastNewValue(prev) == prev = 0
\* (the test made for "some work was outstanding")
WasLastAny(prev) == prev >= 1
\* Line 159: the worker whose fetch_sub returned 1 took the counter to 0.
WasLast(prev) == prev = 1

\* Lines 154-159: the function has returned; decrement the counter.
WorkDone(w) ==
  /\ w \in Workers
  /\ UNCHANGED spinHist
  /\ w_pc[w] = "exec"
  /\ kids_left[w] = 0
  /\ ref_count' = FetchSub(ref_count)
  /\ decs' = decs + 1
  /\ last_one' = IF ref_count = 1 THEN last_one + 1 ELSE last_one
  /\ work_unit' = [work_unit EXCEPT ![w] = NoUnit]
  /\ w_pc' = [w_pc EXCEPT ![w] = IF WasLast(ref_count) THEN "send_finished" ELSE "pop"]
  /\ UNCHANGED <<my_deque, other_deques, kids_left, i, back_off_sleep>>
  /\ UNCHANGED <<sup_pc, sup_k, thread_count, info_deque, work_count, deque,
                 wchan, schan, shutdown_called, executed, runs_returned, next_id>>
  /\ UNCHANGED <<seeds0, incs, finished_sent, steals>>
  /\ UNCHANGED poolVars

\* Line 160: send Finished to the supervisor.
SendFinished(w) ==
  /\ w \in Workers
  /\ UNCHANGED spinHist
  /\ w_pc[w] = "send_finished"
  /\ schan' = Append(schan, FinishedMsg)
  /\ finished_sent' = finished_sent + 1
  /\ w_pc' = [w_pc EXCEPT ![w] = "pop"]
  /\ UNCHANGED <<my_deque, other_deques, work_unit, kids_left, i, back_off_sleep>>
  /\ UNCHANGED <<sup_pc, sup_k, thread_count, info_deque, work_count, ref_count,
                 deque, wchan, shutdown_called, executed, runs_returned, next_id>>
  /\ UNCHANGED <<seeds0, incs, decs, last_one, steals>>
  /\ UNCHANGED poolVars

\* Line 166: give the deque back to the supervisor and wait for the next Start.
WorkerReturn(w) ==
  /\ w \in Workers
  /\ waited' = [waited EXCEPT ![w] = 0]
  /\ UNCHANGED <<sleeps, last_sleep>>
  /\ w_pc[w] = "return"
  /\ schan' = Append(schan, ReturnDequeMsg(w, my_deque[w]))
  /\ my_deque' = [my_deque EXCEPT ![w] = None]
  /\ w_pc' = [w_pc EXCEPT ![w] = "recv"]
  /\ UNCHANGED <<other_deques, work_unit, kids_left, i, back_off_sleep>>
  /\ UNCHANGED <<sup_pc, sup_k, thread_count, info_deque, work_count, ref_count,
                 deque, wchan, shutdown_called, executed, runs_returned, next_id>>
  /\ UNCHANGED runHist
  /\ UNCHANGED poolVars

\* ------------------------------------------------------- the specification
Supervisor ==
  \/ \E n \in 0 .. MaxThreads : New(n)
  \/ \E d \in 0 .. MaxDepth : Push(d)
  \/ RunBegin
  \/ SendStart
  \/ RecvFinished
  \/ SendStop
  \/ Collect
  \/ ShutdownBegin
  \/ SendExit

\* The steps of run() and shutdown() once the caller has made the call.
SupervisorRunning ==
  SendStart \/ RecvFinished \/ SendStop \/ Collect \/ SendExit

Worker(w) ==
  \/ WorkerRecv(w)
  \/ WorkerPop(w)
  \/ VictimPanic(w)
  \/ \E k \in 1 .. MaxThreads : StealData(w, k)
  \/ StealFail(w)
  \/ ProxyInc(w)
  \/ ProxyPush(w)
  \/ WorkDone(w)
  \/ SendFinished(w)
  \/ WorkerReturn(w)

Next == Supervisor \/ \E w \in 0 .. MaxThreads - 1 : Worker(w)

Spec == Init /\ [][Next]_vars

\* Fair scheduling: the supervisor thread, once inside run() or shutdown(),
\* and every worker thread keep taking steps while they can.  The caller is
\* free never to call new, push, run or shutdown again.
FairSpec ==
  /\ Init
  /\ [][Next]_vars
  /\ WF_vars(SupervisorRunning)
  /\ \A w \in 0 .. MaxThreads - 1 : WF_vars(Worker(w))

\* The same system with every steal loop taken iteration by iteration, for a
\* caller that hands in at most MaxStepUnits units.  A failed iteration
\* changes nothing but the spinning worker's own i, back_off_sleep and port,
\* so the rounds of different workers are not interleaved with one another: a
\* worker makes a failed attempt only while no other worker is in the middle
\* of a round.  Everything else interleaves with the iterations of a round.
MidRound(w) == w_pc[w] = "steal" /\ i[w] > 0

StepPush(d) ==
  /\ next_id + TreeSize(d) - 1 <= MaxStepUnits
  /\ Push(d)

StepSupervisor ==
  \/ \E n \in 0 .. MaxThreads : New(n)
  \/ \E d \in 0 .. MaxDepth : StepPush(d)
  \/ RunBegin
  \/ SendStart
  \/ RecvFinished
  \/ SendStop
  \/ Collect
  \/ ShutdownBegin
  \/ SendExit

StepWorker(w) ==
  \/ WorkerRecv(w)
  \/ WorkerPop(w)
  \/ VictimPanic(w)
  \/ \E k \in 1 .. MaxThreads : StealData(w, k)
  \/ (\A v \in Workers \ {w} : ~MidRound(v)) /\ StealIter(w)
  \/ ProxyInc(w)
  \/ ProxyPush(w)
  \/ WorkDone(w)
  \/ SendFinished(w)
  \/ WorkerReturn(w)

StepNext == StepSupervisor \/ \E w \in 0 .. MaxThreads - 1 : StepWorker(w)

StepSpec == Init /\ [][StepNext]_vars

\* -------------------------------------------------------------- TaskPool
\* What recv_opt() leaves in the channel without taking the job out.
ReceivedKept(q) == q

\* What recv_opt() leaves in the channel: the job it returns is taken out.
Received(q) == Tail(q)

\* TaskPool::new(tasks): the assertion, the channel, and the initializer
\* thread, which owns rx from here on; the caller keeps tx.
PoolNew(n) ==
  /\ pool_pc = "new"
  /\ IF n > 0
       THEN /\ pool_pc' = "live"
            /\ tasks' = n
            /\ t_pc' = [t \in 0 .. n - 1 |-> "unspawned"]
            /\ job' = [t \in 0 .. n - 1 |-> NoJob]
       ELSE /\ pool_pc' = "panicked"
            /\ UNCHANGED <<tasks, t_pc, job>>
  /\ UNCHANGED <<spawned, rx, state, sent, ran, received_by>>
  /\ UNCHANGED queueVars

\* One iteration of the initializer thread's loop: a pool thread is spawned
\* with its clone of the Arc.
SpawnThread ==
  /\ pool_pc \in {"live", "dropped"}
  /\ spawned < tasks
  /\ t_pc' = [t_pc EXCEPT ![spawned] = "lock"]
  /\ spawned' = spawned + 1
  /\ UNCHANGED <<pool_pc, tasks, rx, state, job, sent, ran, received_by>>
  /\ UNCHANGED queueVars

\* TaskPool::execute(job): the send never blocks; rx lives as long as the
\* initializer or a pool thread holds the Arc, and no pool thread leaves
\* its loop while tx is alive.
Execute ==
  /\ pool_pc = "live"
  /\ sent < MaxJobs
  /\ rx' = Append(rx, sent + 1)
  /\ sent' = sent + 1
  /\ UNCHANGED <<pool_pc, tasks, spawned, state, t_pc, job, ran, received_by>>
  /\ UNCHANGED queueVars

\* The TaskPool value goes out of scope: tx, the only sender, is dropped.
DropPool ==
  /\ pool_pc = "live"
  /\ pool_pc' = "dropped"
  /\ UNCHANGED <<tasks, spawned, rx, state, t_pc, job, sent, ran, received_by>>
  /\ UNCHANGED queueVars

\* rx.lock(): the thread waits until the mutex is free and takes it.
Lock(t) ==
  /\ t \in PoolThreads
  /\ t_pc[t] = "lock"
  /\ state = None
  /\ state' = t
  /\ t_pc' = [t_pc EXCEPT ![t] = "recv"]
  /\ UNCHANGED <<pool_pc, tasks, spawned, rx, job, sent, ran, received_by>>
  /\ UNCHANGED queueVars

\* recv_opt() returns Ok(job); the guard is dropped at the end of the
\* statement, before the job is run.
RecvJob(t) ==
  /\ t \in PoolThreads
  /\ t_pc[t] = "recv"
  /\ rx # <<>>
  /\ job' = [job EXCEPT ![t] = Head(rx)]
  /\ rx' = Received(rx)
  /\ received_by' = [received_by EXCEPT ![Head(rx)] = @ \cup {t}]
  /\ state' = None
  /\ t_pc' = [t_pc EXCEPT ![t] = "run"]
  /\ UNCHANGED <<pool_pc, tasks, spawned, sent, ran>>
  /\ UNCHANGED queueVars

\* recv_opt() returns Err: the channel is empty and tx is gone.  The guard
\* is dropped and the thread breaks out of its loop.
RecvErr(t) ==
  /\ t \in PoolThreads
  /\ t_pc[t] = "recv"
  /\ rx = <<>>
  /\ pool_pc = "dropped"
  /\ state' = None
  /\ t_pc' = [t_pc EXCEPT ![t] = "done"]
  /\ UNCHANGED <<pool_pc, tasks, spawned, rx, job, sent, ran, received_by>>
  /\ UNCHANGED queueVars

\* job() runs to its end and the thread goes round its loop.
RunJob(t) ==
  /\ t \in PoolThreads
  /\ t_pc[t] = "run"
  /\ ran' = [ran EXCEPT ![job[t]] = @ + 1]
  /\ job' = [job EXCEPT ![t] = NoJob]
  /\ t_pc' = [t_pc EXCEPT ![t] = "lock"]
  /\ UNCHANGED <<pool_pc, tasks, spawned, rx, state, sent, received_by>>
  /\ UNCHANGED queueVars

PoolCaller ==
  \/ \E n \in 0 .. MaxTasks : PoolNew(n)
  \/ Execute
  \/ DropPool

PoolThread(t) ==
  \/ Lock(t)
  \/ RecvJob(t)
  \/ RecvErr(t)
  \/ RunJob(t)

PoolNext == PoolCaller \/ SpawnThread \/ \E t \in 0 .. MaxTasks - 1 : PoolThread(t)

PoolSpec == Init /\ [][PoolNext]_vars

\* Fair scheduling: the initializer thread and every pool thread keep taking
\* steps while they can.  The caller is free never to call execute() and
\* never to drop the pool.
PoolFairSpec ==
  /\ Init
  /\ [][PoolNext]_vars
  /\ WF_vars(SpawnThread)
  /\ \A t \in 0 .. MaxTasks - 1 : WF_vars(PoolThread(t))

\* ------------------------------------------------------------ vocabulary
InRun == sup_pc \in {"start", "recv_finished", "stop", "collect"}

\* A worker is inside a work-unit function or has not yet decremented for it.
Holding(w) == w_pc[w] \in {"exec", "proxy_push"}

\* The ids of the tree rooted at unit u: u and all its descendants.
TreeIds(u) == u.id .. u.id + TreeSize(u.depth) - 1

\* The units in deque q.
InDeque(q) == {q[k] : k \in 1 .. Len(q)}

\* Ids of units that are seeds waiting in worker 0's deque for the next run,
\* and of the children they will push.
WaitingIds ==
  IF thread_count = 0 THEN {} ELSE UNION {TreeIds(u) : u \in InDeque(deque[0])}

NoWorkLeft ==
  /\ \A w \in Workers : deque[w] = <<>>
  /\ \A w \in Workers : ~Holding(w)

\* ------------------------------------------------------------------ claims

\* C1: no work unit is ever executed more than once, whether its owner popped
\* it or a thief stole it, and whenever the caller is back from run() (or has
\* not called it yet) every unit handed in so far, seed or transitively pushed
\* child, has been executed exactly once, except the seeds that wait in worker
\* 0's deque for the next run and the children these will push.
C1_Conservation ==
  /\ \A u \in UnitIds : executed[u] <= 1
  /\ sup_pc = "idle" =>
       \A u \in 1 .. next_id - 1 :
         executed[u] = IF u \in WaitingIds THEN 0 ELSE 1

\* A run of two workers has returned after executing a whole tree of depth
\* MaxDepth, at least two of its units after a steal.
C1_Witness ==
  /\ sup_pc = "idle"
  /\ runs_returned
  /\ thread_count = 2
  /\ steals >= 2
  /\ \A u \in 1 .. TreeSize(MaxDepth) : executed[u] = 1
  /\ decs = TreeSize(MaxDepth)

\* C2: from the moment the supervisor has received the first message of a
\* run (Finished) until run() returns, no deque holds a unit, no worker is
\* inside a work-unit function, and the outstanding counter is 0.
C2_QuiescentAtFinished ==
  sup_pc \in {"stop", "collect"} => (NoWorkLeft /\ ref_count = 0)

\* The supervisor has just received Finished in a run that executed pushed
\* children.
C2_Witness ==
  /\ sup_pc = "stop"
  /\ sup_k = 0
  /\ incs >= 2
  /\ steals >= 1
  /\ finished_sent = 1

\* C3: throughout a run the counter equals seeds + increments - decrements,
\* it never wraps below 0, and it is 0 exactly when no deque holds a unit and
\* no worker holds a unit it has not yet decremented for.
C3_CounterAccounting ==
  InRun =>
    /\ ref_count = seeds0 + incs - decs
    /\ decs <= seeds0 + incs
    /\ ref_count # UintMax
    /\ (ref_count = 0 <=> NoWorkLeft)

\* The counter is back at 0 after increments by the proxy and decrements.
C3_Witness ==
  /\ InRun
  /\ ref_count = 0
  /\ incs >= 2
  /\ steals >= 1
  /\ decs = seeds0 + incs
  /\ seeds0 >= 1

\* C4: per run at most one fetch_sub returns 1 and at most one Finished is
\* sent, only by a worker whose fetch_sub returned 1; exactly one has been
\* sent once the supervisor has received the first message of a seeded run
\* and when a run has returned; and under fair scheduling a seeded run of a
\* queue with a worker and no shutdown does get its Finished.
C4_OneFinished ==
  /\ [] /\ last_one <= 1
        /\ finished_sent <= last_one
        /\ (sup_pc \in {"stop", "collect"} /\ seeds0 >= 1) => finished_sent = 1
        /\ (sup_pc = "idle" /\ runs_returned) => finished_sent = 1
  /\ (InRun /\ seeds0 >= 1 /\ thread_count >= 1 /\ ~shutdown_called)
       ~> (finished_sent = 1)

\* A run of two workers seeded with several units has completed all of them
\* and one Finished was sent.
C4_Witness ==
  /\ InRun
  /\ thread_count >= 2
  /\ seeds0 >= 2
  /\ steals >= 1
  /\ decs = seeds0 + incs
  /\ last_one = 1
  /\ finished_sent = 1

\* C5: with at least two workers, at least one seed and no shutdown, under
\* fair scheduling a run() that has begun eventually returns.
C5_RunTerminates ==
  (sup_pc = "start" /\ thread_count >= 2 /\ seeds0 >= 1 /\ ~shutdown_called)
    ~> (sup_pc = "idle")

\* A seeded run of two workers has returned.
C5_Witness ==
  /\ sup_pc = "idle"
  /\ runs_returned
  /\ thread_count >= 2
  /\ ~shutdown_called
  /\ seeds0 >= 1
  /\ steals >= 1

\* C6 as stated: at every point after a run() has returned and outside a
\* later run(), every WorkerInfo.deque is present, every deque is empty and
\* work_count is 0.
C6_IdleLiteral ==
  (sup_pc = "idle" /\ runs_returned) =>
    /\ \A w \in Workers : info_deque[w] = w /\ deque[w] = <<>>
    /\ work_count = 0

\* C6, amended: on the step on which run() returns every WorkerInfo.deque is
\* present, every deque is empty and work_count is 0; whenever the caller is
\* outside run() and shutdown() every WorkerInfo.deque is present, every deque
\* but worker 0's is empty and worker 0's deque holds exactly the work_count
\* seeds pushed since.
C6_IdleAfterRun ==
  /\ [](sup_pc = "idle" =>
          /\ \A w \in Workers : info_deque[w] = w
          /\ \A w \in Workers : w # 0 => deque[w] = <<>>
          /\ thread_count > 0 => Len(deque[0]) = work_count)
  /\ [][(sup_pc = "collect" /\ sup_pc' = "idle") =>
          /\ \A w \in Workers : info_deque'[w] = w /\ deque'[w] = <<>>
          /\ work_count' = 0]_vars

\* run() has returned and nothing has been pushed since.
C6_Witness ==
  /\ sup_pc = "idle"
  /\ runs_returned
  /\ thread_count >= 2
  /\ work_count = 0
  /\ \A w \in Workers : info_deque[w] = w /\ deque[w] = <<>>
  /\ decs >= 1

\* C7: a run() begun with no seed returns or is rejected: it never leaves the
\* supervisor waiting for a Finished that no worker can send, with the counter
\* at 0, every deque empty, every worker in its steal loop and no message
\* under way.
C7_EmptyRunReturns ==
  ~ /\ sup_pc = "recv_finished"
    /\ seeds0 = 0
    /\ ref_count = 0
    /\ schan = <<>>
    /\ thread_count >= 2
    /\ \A w \in Workers : w_pc[w] = "steal" /\ deque[w] = <<>> /\ wchan[w] = <<>>

\* C8: with one worker, in and after a seeded run() made before any shutdown,
\* no worker thread has panicked and the supervisor has not panicked.
C8_SingleWorkerClean ==
  (thread_count = 1 /\ ~shutdown_called /\ seeds0 >= 1) =>
    /\ sup_pc \notin SupervisorPanics
    /\ \A w \in Workers : w_pc[w] \notin WorkerPanics

\* C9: no constructed WorkQueue has zero workers.
C9_NewZeroPanics ==
  sup_pc \notin {"new"} \cup SupervisorPanics => thread_count > 0

\* C10: once shutdown() has returned, no step enqueues a unit in a deque or
\* changes work_count (a push panics instead).
C10_PushIdleOnly ==
  [][(shutdown_called /\ sup_pc = "idle") => UNCHANGED <<deque, work_count>>]_vars

\* C11: once shutdown() has been called (the caller can only call it outside
\* run()), no worker ever sends a message to the supervisor and no worker is
\* anywhere but in its blocking recv or gone; and under fair scheduling every
\* worker thread receives its Exit and ends.
C11_ShutdownExits ==
  /\ [](shutdown_called =>
          /\ schan = <<>>
          /\ \A w \in Workers : w_pc[w] \in {"recv", "exited"})
  /\ [][shutdown_called => schan' = schan]_vars
  /\ shutdown_called ~> (\A w \in Workers : w_pc[w] = "exited")

\* After a run that returned, shutdown() was called and both workers ended.
C11_Witness ==
  /\ shutdown_called
  /\ runs_returned
  /\ thread_count = 2
  /\ decs >= 1
  /\ \A w \in Workers : w_pc[w] = "exited"

\* C12: on the step on which a run() begins, first or later, with no
\* shutdown() before it: the supervisor's channel and every worker's channel
\* are empty, every worker waits in its recv and every owner handle is with
\* the supervisor, every deque but worker 0's is empty, worker 0's deque holds
\* work_count units none of which has been executed, and the fresh counter is
\* that number.
C12_RunsIndependent ==
  [][(sup_pc = "idle" /\ sup_pc' \in {"start", "recv_finished"}
        /\ ~shutdown_called) =>
       /\ schan = <<>>
       /\ \A w \in Workers :
            wchan[w] = <<>> /\ w_pc[w] = "recv" /\ info_deque[w] = w
       /\ \A w \in Workers : w # 0 => deque[w] = <<>>
       /\ thread_count > 0 =>
            /\ Len(deque[0]) = work_count
            /\ \A u \in InDeque(deque[0]) : executed[u.id] = 0
            /\ ref_count' = Len(deque[0])
       /\ ref_count' = work_count
       /\ seeds0' = work_count]_vars

\* A second run() of two workers has begun with seeds pushed after the first
\* one returned.
C12_Witness ==
  /\ sup_pc = "start"
  /\ sup_k = 0
  /\ runs_returned
  /\ ~shutdown_called
  /\ thread_count = 2
  /\ seeds0 >= 1
  /\ \E u \in UnitIds : executed[u] = 1

\* Worker w takes the message at the head of its port on this step.
Consumes(w) == wchan[w] # <<>> /\ wchan'[w] = Tail(wchan[w])

\* C13: no worker ever panics with "unexpected stop message" or "unexpected
\* message".  A Stop at the head of a worker's port finds that worker inside
\* the loop of a run whose Finished has been sent (or dead of the panic of
\* line 108, with a single worker), holding no work unit; the
\* step that consumes it is the poll of the steal loop and leads to the
\* return of the deque.  A Start at the head of a port finds the worker in
\* its blocking recv (or gone, after a shutdown).
C13_WorkerProtocol ==
  /\ [](\A w \in Workers :
          /\ w_pc[w] \notin {"unexpected_stop", "unexpected_message"}
          /\ (wchan[w] # <<>> /\ Head(wchan[w]).type = "Stop") =>
                /\ w_pc[w] \in {"pop", "steal", "panicked"}
                /\ finished_sent = 1
                /\ work_unit[w] = NoUnit
          /\ (wchan[w] # <<>> /\ Head(wchan[w]).type = "Start") =>
                w_pc[w] \in {"recv", "exited"})
  /\ [][\A w \in Workers :
          (Consumes(w) /\ Head(wchan[w]).type = "Stop") =>
             (w_pc[w] = "steal" /\ w_pc'[w] = "return" /\ finished_sent = 1)]_vars

\* A worker that stole in this run has consumed Stop in its steal loop and is
\* about to return its deque.
C13_Witness ==
  /\ thread_count = 2
  /\ steals >= 1
  /\ finished_sent = 1
  /\ \E w \in Workers : w_pc[w] = "return"

\* C14: the supervisor never panics with "unexpected finished message!".
\* Until it has taken the first message of a run its channel holds nothing
\* or one Finished, and the message it takes (and drops unlooked at) is
\* Finished; from then to the return of run() the channel holds only
\* ReturnDeque messages, of pairwise distinct workers whose deque has not been
\* stored yet, each carrying its sender's own deque; after sup_k of them
\* sup_k deques are stored, and when run() returns every worker's is.
C14_SupervisorOrder ==
  /\ [](/\ sup_pc # "unexpected_finished"
        /\ sup_pc \in {"start", "recv_finished"} =>
             schan \in {<<>>, <<FinishedMsg>>}
        /\ sup_pc \in {"stop", "collect"} =>
             /\ \A k \in 1 .. Len(schan) :
                  /\ schan[k].type = "ReturnDeque"
                  /\ schan[k].index \in Workers
                  /\ schan[k].deque = schan[k].index
                  /\ info_deque[schan[k].index] = None
             /\ \A k, l \in 1 .. Len(schan) :
                  k # l => schan[k].index # schan[l].index
        /\ sup_pc = "collect" =>
             Cardinality({w \in Workers : info_deque[w] # None}) = sup_k)
  /\ [][(sup_pc = "recv_finished" /\ sup_pc' \in {"stop", "idle"}) =>
          Head(schan) = FinishedMsg]_vars
  /\ [][(sup_pc = "collect" /\ sup_pc' = "idle") =>
          \A w \in Workers : info_deque'[w] = w]_vars

\* In a run with a steal the supervisor has stored one returned deque and the
\* other worker's ReturnDeque waits in its channel.
C14_Witness ==
  /\ sup_pc = "collect"
  /\ sup_k = 1
  /\ thread_count = 2
  /\ steals >= 1
  /\ Len(schan) = 1

\* The units held in the deques of workers 0 .. n - 1.
RECURSIVE UnitsInDeques(_)
UnitsInDeques(n) ==
  IF n = 0 THEN 0 ELSE Len(deque[n - 1]) + UnitsInDeques(n - 1)

\* The workers inside a work-unit function.
Executing == {w \in Workers : Holding(w)}
\* The workers between the fetch_add and the push of WorkerProxy::push.
Pushing == {w \in Workers : w_pc[w] = "proxy_push"}

\* C15: throughout a run the counter is at least the number of units in all
\* deques plus the number of units being executed: it is that number plus one
\* for every proxy that has incremented and not yet pushed.  So the counter is
\* at least 1 while any worker executes, and the fetch_sub that returns 1 is
\* made when no deque holds a unit and no other worker executes.
C15_IncBeforePush ==
  /\ [](InRun =>
          /\ ref_count >= UnitsInDeques(thread_count) + Cardinality(Executing)
          /\ ref_count = UnitsInDeques(thread_count) + Cardinality(Executing)
                           + Cardinality(Pushing)
          /\ Executing # {} => ref_count >= 1)
  /\ [][last_one' = last_one + 1 =>
          /\ UnitsInDeques(thread_count) = 0
          /\ Cardinality(Executing) = 1]_vars

\* A thief executes a stolen child and is between fetch_add and push for a
\* grandchild while the child's producer is still inside its own function.
C15_Witness ==
  /\ InRun
  /\ thread_count = 2
  /\ steals >= 1
  /\ Cardinality(Executing) = 2
  /\ Cardinality(Pushing) = 1
  /\ ref_count = UnitsInDeques(thread_count) + 3

\* The places where the owner handle of deque d is: the WorkerInfo slots, the
\* Start messages under way, the running loops of the workers, the
\* ReturnDeque messages under way.
InInfo(d) == {w \in Workers : info_deque[w] = d}
InStart(d) ==
  {<<w, k>> \in Workers \X (1 .. MaxThreads + 2) :
     k <= Len(wchan[w]) /\ wchan[w][k].type = "Start" /\ wchan[w][k].deque = d}
InLoop(d) == {w \in Workers : my_deque[w] = d}
InReturn(d) == {k \in 1 .. Len(schan) : schan[k].deque = d}
Places(d) ==
  Cardinality(InInfo(d)) + Cardinality(InStart(d)) + Cardinality(InLoop(d))
    + Cardinality(InReturn(d))

\* C16: in every state the owner handle of every worker's deque is in exactly
\* one place, and that place is WorkerInfo[w].deque, a Start message in w's
\* own port, w's own running loop or a ReturnDeque message with index w.
C16_OwnerExclusive ==
  \A d \in Workers :
    /\ Places(d) = 1
    /\ InInfo(d) \subseteq {d}
    /\ InLoop(d) \subseteq {d}
    /\ \A p \in InStart(d) : p[1] = d
    /\ \A k \in InReturn(d) : schan[k].index = d

\* C17 as stated: a worker in its steal loop consumes a message that waits in
\* its port within SPIN_COUNT failed steal attempts in a row.
C17_Within128 == \A w \in Workers : waited[w] <= SPIN_COUNT

\* Worker w makes one more iteration of its steal loop and stays in it.
Spins(w) == w_pc[w] = "steal" /\ w_pc'[w] = "steal" /\ i'[w] # i[w]

\* C17, amended: the spin counter runs from 0 to SPIN_COUNT, one step per
\* failed attempt, and the port is polled in the iteration that begins with
\* i == SPIN_COUNT, the (SPIN_COUNT + 1)-th since i was 0, which sets i to 0:
\* a message is consumed in that iteration only, so one that waits since the
\* round began is consumed in the (SPIN_COUNT + 1)-th failed attempt in a row,
\* not before and not later.
C17_PollEvery129 ==
  /\ [](\A w \in Workers :
          /\ i[w] \in 0 .. SPIN_COUNT
          /\ waited[w] <= SPIN_COUNT + 1
          /\ w_pc[w] = "steal" => waited[w] \in {0, i[w]}
          /\ w_pc[w] = "return" => waited[w] \in {0, SPIN_COUNT + 1})
  /\ [][\A w \in Workers :
          /\ Spins(w) => i'[w] = (IF i[w] = SPIN_COUNT THEN 0 ELSE i[w] + 1)
          /\ (w_pc[w] = "steal" /\ Consumes(w)) =>
                (i[w] = SPIN_COUNT /\ i'[w] = 0)
          /\ (w_pc[w] = "steal" /\ wchan[w] # <<>> /\ i[w] = SPIN_COUNT
                 /\ w_pc'[w] = "steal") => i'[w] = i[w]]_vars

\* A worker has consumed the Stop that waited in its port when it entered
\* the steal loop, in its 129th failed attempt.
C17_Witness ==
  /\ thread_count = 2
  /\ finished_sent = 1
  /\ \E w \in Workers : w_pc[w] = "return" /\ waited[w] = SPIN_COUNT + 1

\* Worker w sleeps on this step.
Slept(w) == sleeps'[w] = sleeps[w] + 1
\* Worker w receives Start / leaves the steal loop with a stolen unit / pops a
\* unit of its own deque on this step.
Started(w) == w_pc[w] = "recv" /\ w_pc'[w] = "pop"
Stole(w) == w_pc[w] = "steal" /\ w_pc'[w] = "exec"
Popped(w) == w_pc[w] = "pop" /\ w_pc'[w] = "exec"

\* C18: back_off_sleep is never negative and is BACKOFF_INCREMENT_IN_US times
\* the number of sleeps since it was last set to 0, the latest of which
\* lasted BACKOFF_INCREMENT_IN_US * (that number - 1) microseconds.  A worker
\* sleeps only in an iteration of the steal loop with i > SPINS_UNTIL_BACKOFF,
\* and in every failed one of these; it sleeps back_off_sleep microseconds
\* and then adds BACKOFF_INCREMENT_IN_US.  back_off_sleep is 0 after every
\* Start and after every successful steal and changes on no other step: not
\* on a pop of the own deque, and the iteration that polls and resets i adds
\* its increment like any other.
C18_Backoff ==
  /\ [](\A w \in Workers :
          /\ back_off_sleep[w] >= 0
          /\ back_off_sleep[w] = BACKOFF_INCREMENT_IN_US * sleeps[w]
          /\ last_sleep[w] = (IF sleeps[w] = 0 THEN None
                              ELSE BACKOFF_INCREMENT_IN_US * (sleeps[w] - 1))
          /\ w_pc[w] \in {"pop", "exec", "proxy_push", "send_finished"} =>
                back_off_sleep[w] = 0)
  /\ [][\A w \in Workers :
          /\ Slept(w) =>
                /\ w_pc[w] = "steal"
                /\ i[w] > SPINS_UNTIL_BACKOFF
                /\ last_sleep'[w] = back_off_sleep[w]
                /\ back_off_sleep'[w] = back_off_sleep[w] + BACKOFF_INCREMENT_IN_US
          /\ (w_pc[w] = "steal" /\ ~Stole(w) /\ i'[w] # i[w]
                 /\ i[w] > SPINS_UNTIL_BACKOFF) => Slept(w)
          /\ (Started(w) \/ Stole(w)) => back_off_sleep'[w] = 0
          /\ Popped(w) => back_off_sleep'[w] = back_off_sleep[w]
          /\ back_off_sleep'[w] # back_off_sleep[w] =>
                (Slept(w) \/ Started(w) \/ Stole(w))]_vars

\* Worker w has slept in every iteration from i = SPINS_UNTIL_BACKOFF + 1 to
\* i = SPIN_COUNT of one round, after a run in which a unit was stolen.
C18_Witness ==
  /\ thread_count = 2
  /\ steals >= 1
  /\ \E w \in Workers :
       /\ w_pc[w] = "steal"
       /\ i[w] = 0
       /\ sleeps[w] = SPIN_COUNT - SPINS_UNTIL_BACKOFF
       /\ last_sleep[w] =
            BACKOFF_INCREMENT_IN_US * (SPIN_COUNT - SPINS_UNTIL_BACKOFF - 1)

\* C19: at every steal attempt of worker w its own deque is empty and is the
\* deque of its own index, and other_deques of w holds exactly the
\* thread_count - 1 thief handles of the other workers, each once, so the
\* victim it chooses is never w itself.
Victims(w) == {other_deques[w][k] : k \in 1 .. Len(other_deques[w])}

C19_NeverStealsFromSelf ==
  \A w \in Workers :
    /\ Len(other_deques[w]) = thread_count - 1
    /\ Victims(w) = Workers \ {w}
    /\ w_pc[w] = "steal" => my_deque[w] = w /\ deque[w] = <<>>

\* A worker is in its steal loop with nothing of its own while a victim it
\* can choose holds work.
C19_Witness ==
  \E w \in Workers :
    /\ w_pc[w] = "steal"
    /\ \E v \in Victims(w) : v # w /\ deque[v] # <<>>

\* C20: in a TaskPool of tasks > 0 threads every job passed to execute() is,
\* at every moment, in exactly one place: waiting in the channel, held by
\* the one pool thread that received it, or run once; no job is received by
\* two threads or run twice.  Under fair scheduling every job sent is
\* eventually run (exactly once, by the above), and once the pool is dropped
\* every pool thread eventually leaves its loop, with the channel drained.
Waiting(j) == Cardinality({k \in 1 .. Len(rx) : rx[k] = j})
HeldBy(j) == {t \in PoolThreads : job[t] = j}

C20_ExactlyOnce ==
  /\ [](\A j \in JobIds :
          /\ Cardinality(received_by[j]) <= 1
          /\ HeldBy(j) \subseteq received_by[j]
          /\ ran[j] > 0 => received_by[j] # {}
          /\ Waiting(j) + Cardinality(HeldBy(j)) + ran[j]
               = IF j <= sent THEN 1 ELSE 0)
  /\ \A j \in JobIds : (j <= sent) ~> (ran[j] = 1)
  /\ (pool_pc = "dropped")
       ~> (rx = <<>> /\ \A t \in PoolThreads : t_pc[t] = "done")

\* A pool of two threads was given two jobs and dropped; each thread received
\* and ran one of them, the channel is drained and both threads have left
\* their loops.
C20_Witness ==
  /\ pool_pc = "dropped"
  /\ tasks = 2
  /\ sent = 2
  /\ rx = <<>>
  /\ \A j \in 1 .. 2 : ran[j] = 1
  /\ received_by[1] # received_by[2]
  /\ \A t \in PoolThreads : t_pc[t] = "done"

====
